---- MODULE Spec2Model ----
(***************************************************************************)
(* Model of the two Streamlit front-ends of LLMpaglu/LinkedinPosts:        *)
(*   streamlit_app.py            multi-reference image generation          *)
(*   image_masking_streamlit.py  masked edit                               *)
(* One script run (main) is split at every call that can raise or that     *)
(* talks to the outside: save_uploaded_file, encode_image, create_file,    *)
(* client.responses.create, base64.b64decode, open(output_filename),       *)
(* os.unlink.  pc is the position of the running script.                   *)
(***************************************************************************)
EXTENDS Integers, Sequences, FiniteSets, TLC

\* ------------------------------------------------------------------ bounds
MaxUploads == 2      \* longest list the multi-file uploader delivers
MaxOutputs == 2      \* longest response.output list of the remote API

\* --------------------------------------------------------------- constants
MaxFileSize   == 20 * 1024 * 1024
allowed_types == <<"image/jpeg", "image/jpg", "image/png", "image/gif", "image/webp">>
Pad           == 64                     \* the '=' symbol of base64
DataUrlPrefix == "data:image/jpeg;base64,"
QualityOptions == {"standard", "high"}
DefaultOutputFilename == "masked_image.png"

\* An absent upload (Python None), shaped like an upload so that it can be
\* compared with one.
None == [name |-> <<>>, size |-> 0, type |-> "", content |-> <<>>]

\* ------------------------------------------------------------ pure helpers
InSeq(x, s) == \E k \in 1..Len(s) : s[k] = x

\* s contains the words w (consecutively)
ContainsWords(s, w) ==
    \E k \in 0..(Len(s) - Len(w)) : \A j \in 1..Len(w) : s[k + j] = w[j]

RECURSIVE B64Encode(_)
B64Encode(s) ==
    IF Len(s) = 0 THEN <<>>
    ELSE IF Len(s) = 1
         THEN <<s[1] \div 4, (s[1] % 4) * 16, Pad, Pad>>
    ELSE IF Len(s) = 2
         THEN <<s[1] \div 4, (s[1] % 4) * 16 + s[2] \div 16, (s[2] % 16) * 4, Pad>>
    ELSE <<s[1] \div 4, (s[1] % 4) * 16 + s[2] \div 16,
           (s[2] % 16) * 4 + s[3] \div 64, s[3] % 64>>
         \o B64Encode(SubSeq(s, 4, Len(s)))

\* bytes of one group of four symbols
DecodeQuad(q) ==
    IF q[3] = Pad THEN <<q[1] * 4 + q[2] \div 16>>
    ELSE IF q[4] = Pad
         THEN <<q[1] * 4 + q[2] \div 16, (q[2] % 16) * 16 + q[3] \div 4>>
    ELSE <<q[1] * 4 + q[2] \div 16, (q[2] % 16) * 16 + q[3] \div 4,
           (q[3] % 4) * 64 + q[4]>>

RECURSIVE DecodeQuads(_)
DecodeQuads(s) ==
    IF Len(s) = 0 THEN <<>>
    ELSE DecodeQuad(SubSeq(s, 1, 4)) \o DecodeQuads(SubSeq(s, 5, Len(s)))

\* base64.b64decode: a string whose length is not a multiple of four raises
\* binascii.Error (incorrect padding)
B64Decode(s) ==
    IF Len(s) % 4 # 0
    THEN [ok |-> FALSE, bytes |-> <<>>]
    ELSE [ok |-> TRUE, bytes |-> DecodeQuads(s)]

\* the type test before the size test
validate_image_file_TypeFirst(uploaded_file) ==
    IF uploaded_file = None
    THEN [ok |-> FALSE, msg |-> <<"No", "file", "uploaded">>]
    ELSE IF ~InSeq(uploaded_file.type, allowed_types)
    THEN [ok |-> FALSE,
          msg |-> <<"File", "type", uploaded_file.type, "not", "supported.", "Use:">>
                  \o allowed_types]
    ELSE IF uploaded_file.size > MaxFileSize
    THEN [ok |-> FALSE, msg |-> <<"File", "size", "must", "be", "less", "than", "20MB">>]
    ELSE [ok |-> TRUE, msg |-> <<"File", "is", "valid">>]

\* the size test left out
validate_image_file_NoSizeTest(uploaded_file) ==
    IF uploaded_file = None
    THEN [ok |-> FALSE, msg |-> <<"No", "file", "uploaded">>]
    ELSE IF ~InSeq(uploaded_file.type, allowed_types)
    THEN [ok |-> FALSE,
          msg |-> <<"File", "type", uploaded_file.type, "not", "supported.", "Use:">>
                  \o allowed_types]
    ELSE [ok |-> TRUE, msg |-> <<"File", "is", "valid">>]

\* >= where the code has >
validate_image_file_SizeGE(uploaded_file) ==
    IF uploaded_file = None
    THEN [ok |-> FALSE, msg |-> <<"No", "file", "uploaded">>]
    ELSE IF uploaded_file.size >= MaxFileSize
    THEN [ok |-> FALSE, msg |-> <<"File", "size", "must", "be", "less", "than", "20MB">>]
    ELSE IF ~InSeq(uploaded_file.type, allowed_types)
    THEN [ok |-> FALSE,
          msg |-> <<"File", "type", uploaded_file.type, "not", "supported.", "Use:">>
                  \o allowed_types]
    ELSE [ok |-> TRUE, msg |-> <<"File", "is", "valid">>]

validate_image_file(uploaded_file) ==
    IF uploaded_file = None
    THEN [ok |-> FALSE, msg |-> <<"No", "file", "uploaded">>]
    ELSE IF uploaded_file.size > MaxFileSize
    THEN [ok |-> FALSE, msg |-> <<"File", "size", "must", "be", "less", "than", "20MB">>]
    ELSE IF ~InSeq(uploaded_file.type, allowed_types)
    THEN [ok |-> FALSE,
          msg |-> <<"File", "type", uploaded_file.type, "not", "supported.", "Use:">>
                  \o allowed_types]
    ELSE [ok |-> TRUE, msg |-> <<"File", "is", "valid">>]

\* ------------------------------------------------------------- input sets
FileA      == [name |-> <<"a", "png">>, size |-> MaxFileSize, type |-> "image/png",
               content |-> <<137, 80, 78>>]
FileB      == [name |-> <<"b", "jpg">>, size |-> 2, type |-> "image/jpeg",
               content |-> <<255, 216>>]
FileBig    == [name |-> <<"big", "png">>, size |-> MaxFileSize + 1, type |-> "image/png",
               content |-> <<71>>]
FileBigBmp == [name |-> <<"big", "bmp">>, size |-> MaxFileSize + 1, type |-> "image/bmp",
               content |-> <<66>>]
FileBmp    == [name |-> <<"doc", "v2", "bmp">>, size |-> 1, type |-> "image/bmp",
               content |-> <<66, 77>>]
Files      == {FileA, FileB, FileBig, FileBigBmp, FileBmp}

ValidateSizes == {0, 1, MaxFileSize - 1, MaxFileSize, MaxFileSize + 1,
                  2 * MaxFileSize, 1024 * 1024 * 1024}
ValidateTypes == {"image/jpeg", "image/jpg", "image/png", "image/gif", "image/webp",
                  "image/bmp", "application/pdf", ""}
ValidateInputs ==
    {None} \cup [name : {<<"x", "png">>}, size : ValidateSizes,
                 type : ValidateTypes, content : {<<71>>}]

NotRun == [ok |-> FALSE, msg |-> <<>>]

Apps        == {"generator", "masking"}
NoKey       == ""
TypedKeys   == {NoKey, "sk-1", "sk-2"}      \* what the sidebar text_input holds
EnvKeys     == {NoKey, "sk-1"}              \* OPENAI_API_KEY when the process starts
NoClient    == "no client"
Prompts     == {"", "add a red balloon"}
Filenames   == {DefaultOutputFilename, ""}
NoError     == ""
StoreErrors == {"OSError: No space left on device"}
ApiErrors   == {"AuthenticationError: 401", "APIConnectionError: Connection error."}
DecodeError == "Error: Incorrect padding"
WriteError  == "FileNotFoundError: No such file or directory: ''"
NoOutput    == [name |-> "", bytes |-> <<>>]

RECURSIVE SeqsUpTo(_, _)
SeqsUpTo(S, n) ==
    IF n = 0 THEN {<<>>}
    ELSE LET shorter == SeqsUpTo(S, n - 1)
         IN  shorter \cup {Append(s, x) : s \in shorter, x \in S}

UploadLists == SeqsUpTo(Files, MaxUploads)

ImgX    == <<137, 80>>
ImgY    == <<71, 73, 70, 56>>
OutMsg  == [type |-> "message", result |-> <<>>]
OutX    == [type |-> "image_generation_call", result |-> B64Encode(ImgX)]
OutY    == [type |-> "image_generation_call", result |-> B64Encode(ImgY)]
OutBad  == [type |-> "image_generation_call", result |-> SubSeq(B64Encode(ImgX), 1, 3)]
Outputs == {OutMsg, OutX, OutY, OutBad}
Responses == {[output |-> o] : o \in SeqsUpTo(Outputs, MaxOutputs)}
NoResponse == [output |-> <<>>]

required_packages == <<"streamlit", "openai", "requests", "PIL">>
GeneratorPort == 8501
MaskingPort   == 8502
NoServer      == [script |-> "", port |-> 0, address |-> ""]
StartErrors   == {"OSError: cannot start the interpreter"}
KeyboardInterrupt == "KeyboardInterrupt"

\* the command line of subprocess.run
ServerOf(l) ==
    IF l = "generator"
    THEN [script |-> "streamlit_app.py", port |-> GeneratorPort, address |-> "localhost"]
    ELSE [script |-> "image_masking_streamlit.py", port |-> MaskingPort,
          address |-> "localhost"]

VARIABLES
    vfile, vresult,     \* validate_image_file checked on its own
    app,                \* which script this process runs
    pc,                 \* position of the running script; "Done" at its end,
                        \* "Idle" between runs
    submitted,          \* the current (or last) run passed the Generate guard
    envKey,             \* os.environ["OPENAI_API_KEY"]
    clientKey,          \* the key inside the client cached by st.cache_resource
    api_key,            \* main's api_key
    uploaded_files, valid_files,          \* generator
    base_image, mask_image,               \* masking
    prompt, quality, output_filename,
    temp_files, base64_images, file_ids,
    created,            \* temp files created on disk by this run, in order
    registrations,      \* client.files.create calls of this run, in order
    genCalls,           \* client.responses.create calls of this run, in order
    response, image_data,
    presented,          \* decoded images handed to st.image / st.download_button
    exc,                \* the exception in flight, NoError if none
    cleaned,            \* temp_files entries the finally loop has gone through
    ui,                 \* st.success / st.error / st.info messages of this run
    outputFile,         \* the output file in the working directory
    launcher,           \* which launcher script runs
    lpc,                \* position of the launcher
    installed,          \* the packages that can be imported
    checked,            \* required_packages entries check_dependencies has tried
    missing_packages,
    server,             \* the UI server process subprocess.run started
    lexc,               \* what subprocess.run raised, NoError if nothing
    exit_code           \* the launcher's exit code once lpc = "Exited"

vvars == <<vfile, vresult>>

lvars == <<launcher, lpc, installed, checked, missing_packages, server, lexc, exit_code>>

reqvars == <<temp_files, base64_images, file_ids, created, registrations, genCalls,
             response, image_data, presented, exc, cleaned>>

inputvars == <<api_key, uploaded_files, valid_files, base_image, mask_image, prompt,
               quality, output_filename>>

vars == <<vfile, vresult, app, pc, submitted, envKey, clientKey, inputvars, reqvars,
          ui, outputFile, lvars>>

Msg(kind, name, msg) == [kind |-> kind, name |-> name, msg |-> msg]

\* the state a script run starts from: every local of main is fresh
FreshRequest ==
    /\ temp_files' = <<>>
    /\ base64_images' = <<>>
    /\ file_ids' = <<>>
    /\ created' = <<>>
    /\ registrations' = <<>>
    /\ genCalls' = <<>>
    /\ response' = NoResponse
    /\ image_data' = <<>>
    /\ presented' = <<>>
    /\ exc' = NoError
    /\ cleaned' = 0

\* the launcher of app a has started the UI server and waits for it
LauncherServing(a) ==
    /\ launcher = a
    /\ lpc = "Serving"
    /\ installed = {required_packages[k] : k \in 1..Len(required_packages)}
    /\ checked = Len(required_packages)
    /\ missing_packages = <<>>
    /\ server = ServerOf(a)
    /\ lexc = NoError
    /\ exit_code = 0

Init ==
    /\ vfile = None
    /\ vresult = NotRun
    /\ app \in Apps
    /\ pc = "Idle"
    /\ submitted = FALSE
    /\ envKey \in EnvKeys
    /\ clientKey = NoClient
    /\ api_key = NoKey
    /\ uploaded_files = <<>>
    /\ valid_files = <<>>
    /\ base_image = None
    /\ mask_image = None
    /\ prompt = ""
    /\ quality = "high"
    /\ output_filename = DefaultOutputFilename
    /\ temp_files = <<>>
    /\ base64_images = <<>>
    /\ file_ids = <<>>
    /\ created = <<>>
    /\ registrations = <<>>
    /\ genCalls = <<>>
    /\ response = NoResponse
    /\ image_data = <<>>
    /\ presented = <<>>
    /\ exc = NoError
    /\ cleaned = 0
    /\ ui = <<>>
    /\ outputFile = NoOutput
    /\ LauncherServing(app)

\* ------------------------------------------------------- shared functions
\* the client get_openai_client returns: built from the environment on the
\* first call, the cached one afterwards
get_openai_client == IF clientKey = NoClient THEN envKey ELSE clientKey

\* index in created of the temp file at path
CreatedAt(path) == CHOOSE k \in 1..Len(created) : created[k].path = path

FileContent(path) == created[CreatedAt(path)].content

encode_image(file_path) == B64Encode(FileContent(file_path))

\* the name NamedTemporaryFile gives the n-th temp file of a run
TempPath(n, uploaded_file) ==
    [id |-> n, suffix |-> uploaded_file.name[Len(uploaded_file.name)]]

TempFile(path, content) ==
    [path |-> path, content |-> content, exists |-> TRUE, unlinks |-> 0]

\* save_uploaded_file, and the caller's temp_files.append on its return.
\* how: "ok", "no_file" (NamedTemporaryFile raises), "partial" (the file is
\* created, then tmp_file.write raises)
save_uploaded_file(uploaded_file, how, err, pcNext) ==
    LET path == TempPath(Len(created) + 1, uploaded_file)
    IN  IF how = "ok"
        THEN /\ created' = Append(created, TempFile(path, uploaded_file.content))
             /\ temp_files' = Append(temp_files, path)
             /\ pc' = pcNext
             /\ UNCHANGED exc
        ELSE /\ created' = IF how = "partial"
                           THEN Append(created, TempFile(path, <<>>))
                           ELSE created
             /\ exc' = err
             /\ pc' = "Finally"
             /\ UNCHANGED temp_files

\* a failed client.files.create is swallowed and the caller goes on
create_file_Continue(file_path, err, pcNext) ==
    /\ clientKey' = get_openai_client
    /\ registrations' = Append(registrations,
            [path |-> file_path, content |-> FileContent(file_path),
             key |-> get_openai_client, purpose |-> "vision", ok |-> err = NoError,
             err |-> err, id |-> IF err = NoError THEN Len(registrations) + 1 ELSE 0])
    /\ file_ids' = Append(file_ids, IF err = NoError THEN Len(registrations) + 1 ELSE 0)
    /\ pc' = pcNext
    /\ UNCHANGED exc

Registration(path, ok, err) ==
    [path |-> path, content |-> FileContent(path), key |-> get_openai_client,
     purpose |-> "vision", ok |-> ok, err |-> err,
     id |-> IF ok THEN Len(registrations) + 1 ELSE 0]

\* create_file: one client.files.create; err = NoError when it returns
create_file(file_path, err, pcNext) ==
    /\ clientKey' = get_openai_client
    /\ registrations' = Append(registrations, Registration(file_path, err = NoError, err))
    /\ IF err = NoError
       THEN /\ file_ids' = Append(file_ids, Len(registrations) + 1)
            /\ pc' = pcNext
            /\ UNCHANGED exc
       ELSE /\ exc' = err
            /\ pc' = "Finally"
            /\ UNCHANGED file_ids

\* no filtering on the entry's type
Extract_NoFilter(resp) == [k \in 1..Len(resp.output) |-> resp.output[k].result]

RECURSIVE ImageCalls(_)
ImageCalls(output) ==
    IF output = <<>> THEN <<>>
    ELSE (IF Head(output).type = "image_generation_call" THEN <<Head(output)>> ELSE <<>>)
         \o ImageCalls(Tail(output))

Extract(resp) ==
    LET calls == ImageCalls(resp.output)
    IN  [k \in 1..Len(calls) |-> calls[k].result]

\* ------------------------------------------------ streamlit_app.py: main
\* no filtering: every upload is kept
ValidFiles_NoFilter(files) == files

RECURSIVE ValidFiles(_)
ValidFiles(files) ==
    IF files = <<>> THEN <<>>
    ELSE (IF validate_image_file(Head(files)).ok THEN <<Head(files)>> ELSE <<>>)
         \o ValidFiles(Tail(files))

ValidationReport(files) ==
    [k \in 1..Len(files) |->
        LET r == validate_image_file(files[k])
        IN  Msg(IF r.ok THEN "success" ELSE "error", files[k].name, r.msg)]

KeyRequired == Msg("error", <<>>, <<"OpenAI", "API", "key", "is", "required!">>)

\* one script run up to the Generate button
G_Run ==
    /\ app = "generator"
    /\ pc = "Idle"
    /\ \E typed \in TypedKeys, files \in UploadLists, p \in Prompts, clicked \in BOOLEAN :
         LET key   == IF typed # NoKey THEN typed ELSE envKey
             valid == ValidFiles(files)
             disabled == ~(valid # <<>> /\ p # "")
         IN  /\ api_key' = key
             /\ IF key = NoKey
                THEN /\ ui' = <<KeyRequired>>
                     /\ uploaded_files' = <<>>
                     /\ valid_files' = <<>>
                     /\ prompt' = ""
                     /\ submitted' = FALSE
                     /\ pc' = "Done"
                     /\ UNCHANGED envKey
                ELSE /\ envKey' = key
                     /\ uploaded_files' = files
                     /\ valid_files' = valid
                     /\ IF files # <<>> /\ valid = <<>>
                        THEN /\ ui' = Append(ValidationReport(files),
                                    Msg("error", <<>>, <<"No", "valid", "images", "uploaded.">>))
                             /\ prompt' = ""
                             /\ submitted' = FALSE
                             /\ pc' = "Done"
                        ELSE /\ ui' = ValidationReport(files)
                             /\ prompt' = p
                             /\ submitted' = (clicked /\ ~disabled)
                             /\ pc' = IF clicked /\ ~disabled THEN "Save" ELSE "Done"
    /\ UNCHANGED <<vvars, lvars, app, clientKey, reqvars, base_image, mask_image, quality,
                   output_filename, outputFile>>

G_Save ==
    /\ app = "generator"
    /\ pc = "Save"
    /\ \E how \in {"ok", "no_file", "partial"}, err \in StoreErrors :
         save_uploaded_file(valid_files[Len(temp_files) + 1], how, err, "Encode")
    /\ UNCHANGED <<vvars, lvars, app, submitted, envKey, clientKey, inputvars, base64_images,
                   file_ids, registrations, genCalls, response, image_data, presented,
                   cleaned, ui, outputFile>>

G_Encode ==
    /\ app = "generator"
    /\ pc = "Encode"
    /\ base64_images' = Append(base64_images, encode_image(temp_files[Len(temp_files)]))
    /\ pc' = "Register"
    /\ UNCHANGED <<vvars, lvars, app, submitted, envKey, clientKey, inputvars, temp_files,
                   file_ids, created, registrations, genCalls, response, image_data,
                   presented, exc, cleaned, ui, outputFile>>

G_Register ==
    /\ app = "generator"
    /\ pc = "Register"
    /\ \E err \in ApiErrors \cup {NoError} :
         create_file(temp_files[Len(temp_files)], err,
                     IF Len(temp_files) < Len(valid_files) THEN "Save" ELSE "Generate")
    /\ UNCHANGED <<vvars, lvars, app, submitted, envKey, inputvars, temp_files, base64_images,
                   created, genCalls, response, image_data, presented, cleaned, ui,
                   outputFile>>

\* the file ids in reverse order
G_Content_Reversed ==
    <<[type |-> "input_text", text |-> prompt]>>
    \o [k \in 1..Len(base64_images) |->
          [type |-> "input_image",
           image_url |-> [prefix |-> DataUrlPrefix, data |-> base64_images[k]]]]
    \o [k \in 1..Len(file_ids) |->
          [type |-> "input_image", file_id |-> file_ids[Len(file_ids) + 1 - k]]]

G_Content ==
    <<[type |-> "input_text", text |-> prompt]>>
    \o [k \in 1..Len(base64_images) |->
          [type |-> "input_image",
           image_url |-> [prefix |-> DataUrlPrefix, data |-> base64_images[k]]]]
    \o [k \in 1..Len(file_ids) |-> [type |-> "input_image", file_id |-> file_ids[k]]]

G_Request ==
    [model |-> "gpt-4o", role |-> "user", content |-> G_Content,
     tools |-> <<[type |-> "image_generation"]>>, key |-> get_openai_client]

\* an empty result is raised as an exception
Generate_EmptyRaises(request, resp, err, noImage) ==
    /\ clientKey' = get_openai_client
    /\ genCalls' = Append(genCalls, request)
    /\ IF err # NoError \/ Extract(resp) = <<>>
       THEN /\ exc' = IF err # NoError THEN err ELSE "IndexError: list index out of range"
            /\ pc' = "Finally"
            /\ response' = resp
            /\ UNCHANGED <<image_data, ui>>
       ELSE /\ response' = resp
            /\ image_data' = Extract(resp)
            /\ ui' = Append(ui, Msg("success", <<>>, <<"generated", "successfully!">>))
            /\ pc' = "Present"
            /\ UNCHANGED exc

\* a failed client.responses.create is tried once more
Generate_Retry(request, resp, err, noImage) ==
    /\ clientKey' = get_openai_client
    /\ genCalls' = IF err # NoError THEN genCalls \o <<request, request>>
                   ELSE Append(genCalls, request)
    /\ IF err # NoError
       THEN /\ exc' = err
            /\ pc' = "Finally"
            /\ UNCHANGED <<response, image_data, ui>>
       ELSE /\ response' = resp
            /\ image_data' = Extract(resp)
            /\ IF Extract(resp) # <<>>
               THEN /\ ui' = Append(ui, Msg("success", <<>>, <<"generated", "successfully!">>))
                    /\ pc' = "Present"
               ELSE /\ ui' = Append(ui, Msg("error", <<>>, noImage))
                    /\ pc' = "Finally"
            /\ UNCHANGED exc

\* client.responses.create and, when it returns, the extraction
Generate(request, resp, err, noImage) ==
    /\ clientKey' = get_openai_client
    /\ genCalls' = Append(genCalls, request)
    /\ IF err # NoError
       THEN /\ exc' = err
            /\ pc' = "Finally"
            /\ UNCHANGED <<response, image_data, ui>>
       ELSE /\ response' = resp
            /\ image_data' = Extract(resp)
            /\ IF Extract(resp) # <<>>
               THEN /\ ui' = Append(ui, Msg("success", <<>>, <<"generated", "successfully!">>))
                    /\ pc' = "Present"
               ELSE /\ ui' = Append(ui, Msg("error", <<>>, noImage))
                    /\ pc' = "Finally"
            /\ UNCHANGED exc

G_Generate ==
    /\ app = "generator"
    /\ pc = "Generate"
    /\ \/ \E resp \in Responses :
            Generate(G_Request, resp, NoError, <<"No", "images", "were", "generated">>)
       \/ \E err \in ApiErrors :
            Generate(G_Request, NoResponse, err, <<"No", "images", "were", "generated">>)
    /\ UNCHANGED <<vvars, lvars, app, submitted, envKey, inputvars, temp_files, base64_images,
                   file_ids, created, registrations, presented, cleaned, outputFile>>

\* one round of the loop over image_data: decode, st.image, st.download_button
G_Present ==
    /\ app = "generator"
    /\ pc = "Present"
    /\ LET k == Len(presented) + 1
           d == B64Decode(image_data[k])
       IN  IF d.ok
           THEN /\ presented' = Append(presented, d.bytes)
                /\ pc' = IF k < Len(image_data) THEN "Present" ELSE "Finally"
                /\ UNCHANGED exc
           ELSE /\ exc' = DecodeError
                /\ pc' = "Finally"
                /\ UNCHANGED presented
    /\ UNCHANGED <<vvars, lvars, app, submitted, envKey, clientKey, inputvars, temp_files,
                   base64_images, file_ids, created, registrations, genCalls, response,
                   image_data, cleaned, ui, outputFile>>

\* ---------------------------------------- image_masking_streamlit.py: main
FileReport(what, r) ==
    Msg(IF r.ok THEN "success" ELSE "error", <<what>>, r.msg)

\* one script run up to the Generate button
M_Run ==
    /\ app = "masking"
    /\ pc = "Idle"
    /\ \E typed \in TypedKeys, q \in QualityOptions, base \in Files \cup {None},
          mask \in Files \cup {None}, p \in Prompts, fname \in Filenames,
          clicked \in BOOLEAN :
         LET key == IF typed # NoKey THEN typed ELSE envKey
             rb  == validate_image_file(base)
             rm  == validate_image_file(mask)
             baseUi == IF base # None THEN <<FileReport("Base image:", rb)>> ELSE <<>>
             maskUi == IF mask # None THEN <<FileReport("Mask image:", rm)>> ELSE <<>>
             disabled == ~(base # None /\ mask # None /\ p # "")
         IN  /\ api_key' = key
             /\ IF key = NoKey
                THEN /\ ui' = <<KeyRequired>>
                     /\ submitted' = FALSE
                     /\ pc' = "Done"
                     /\ UNCHANGED <<envKey, quality, base_image, mask_image, prompt,
                                    output_filename>>
                ELSE /\ envKey' = key
                     /\ quality' = q
                     /\ base_image' = base
                     /\ IF base # None /\ ~rb.ok
                        THEN /\ ui' = baseUi
                             /\ submitted' = FALSE
                             /\ pc' = "Done"
                             /\ UNCHANGED <<mask_image, prompt, output_filename>>
                        ELSE /\ mask_image' = mask
                             /\ IF mask # None /\ ~rm.ok
                                THEN /\ ui' = baseUi \o maskUi
                                     /\ submitted' = FALSE
                                     /\ pc' = "Done"
                                     /\ UNCHANGED <<prompt, output_filename>>
                                ELSE /\ ui' = baseUi \o maskUi
                                     /\ prompt' = p
                                     /\ output_filename' = fname
                                     /\ submitted' = (clicked /\ ~disabled)
                                     /\ pc' = IF clicked /\ ~disabled
                                              THEN "SaveBase" ELSE "Done"
    /\ UNCHANGED <<vvars, lvars, app, clientKey, reqvars, uploaded_files, valid_files, outputFile>>

M_SaveBase ==
    /\ app = "masking"
    /\ pc = "SaveBase"
    /\ \E how \in {"ok", "no_file", "partial"}, err \in StoreErrors :
         save_uploaded_file(base_image, how, err, "SaveMask")
    /\ UNCHANGED <<vvars, lvars, app, submitted, envKey, clientKey, inputvars, base64_images,
                   file_ids, registrations, genCalls, response, image_data, presented,
                   cleaned, ui, outputFile>>

M_SaveMask ==
    /\ app = "masking"
    /\ pc = "SaveMask"
    /\ \E how \in {"ok", "no_file", "partial"}, err \in StoreErrors :
         save_uploaded_file(mask_image, how, err, "RegisterBase")
    /\ UNCHANGED <<vvars, lvars, app, submitted, envKey, clientKey, inputvars, base64_images,
                   file_ids, registrations, genCalls, response, image_data, presented,
                   cleaned, ui, outputFile>>

\* base_file_id is file_ids[1], mask_file_id is file_ids[2];
\* base_path is temp_files[1], mask_path is temp_files[2]
M_RegisterBase ==
    /\ app = "masking"
    /\ pc = "RegisterBase"
    /\ \E err \in ApiErrors \cup {NoError} : create_file(temp_files[1], err, "RegisterMask")
    /\ UNCHANGED <<vvars, lvars, app, submitted, envKey, inputvars, temp_files, base64_images,
                   created, genCalls, response, image_data, presented, cleaned, ui,
                   outputFile>>

M_RegisterMask ==
    /\ app = "masking"
    /\ pc = "RegisterMask"
    /\ \E err \in ApiErrors \cup {NoError} : create_file(temp_files[2], err, "Generate")
    /\ UNCHANGED <<vvars, lvars, app, submitted, envKey, inputvars, temp_files, base64_images,
                   created, genCalls, response, image_data, presented, cleaned, ui,
                   outputFile>>

\* the mask's file id where the base image's belongs
M_Content_MaskAsBase ==
    <<[type |-> "input_text", text |-> prompt],
      [type |-> "input_image", file_id |-> file_ids[2]]>>

M_Content ==
    <<[type |-> "input_text", text |-> prompt],
      [type |-> "input_image", file_id |-> file_ids[1]]>>

M_Tools ==
    <<[type |-> "image_generation", quality |-> quality,
       input_image_mask |-> [file_id |-> file_ids[2]]]>>

M_Request ==
    [model |-> "gpt-4o", role |-> "user", content |-> M_Content, tools |-> M_Tools,
     key |-> get_openai_client]

\* the output file is opened for writing before the result is looked at
M_Generate_TruncatesFirst ==
    /\ app = "masking"
    /\ pc = "Generate"
    /\ \/ \E resp \in Responses :
            Generate(M_Request, resp, NoError, <<"No", "image", "was", "generated">>)
       \/ \E err \in ApiErrors :
            Generate(M_Request, NoResponse, err, <<"No", "image", "was", "generated">>)
    /\ outputFile' = IF output_filename = "" THEN outputFile
                     ELSE [name |-> output_filename, bytes |-> <<>>]
    /\ UNCHANGED <<vvars, lvars, app, submitted, envKey, inputvars, temp_files, base64_images,
                   file_ids, created, registrations, presented, cleaned>>

M_Generate ==
    /\ app = "masking"
    /\ pc = "Generate"
    /\ \/ \E resp \in Responses :
            Generate(M_Request, resp, NoError, <<"No", "image", "was", "generated">>)
       \/ \E err \in ApiErrors :
            Generate(M_Request, NoResponse, err, <<"No", "image", "was", "generated">>)
    /\ UNCHANGED <<vvars, lvars, app, submitted, envKey, inputvars, temp_files, base64_images,
                   file_ids, created, registrations, presented, cleaned, outputFile>>

\* image_data[0] is decoded, shown and offered for download
M_Present ==
    /\ app = "masking"
    /\ pc = "Present"
    /\ LET d == B64Decode(image_data[1])
       IN  IF d.ok
           THEN /\ presented' = <<d.bytes>>
                /\ pc' = "WriteOutput"
                /\ UNCHANGED exc
           ELSE /\ exc' = DecodeError
                /\ pc' = "Finally"
                /\ UNCHANGED presented
    /\ UNCHANGED <<vvars, lvars, app, submitted, envKey, clientKey, inputvars, temp_files,
                   base64_images, file_ids, created, registrations, genCalls, response,
                   image_data, cleaned, ui, outputFile>>

\* open(output_filename, "wb") and f.write(image_bytes); an empty file name
\* makes open raise
M_WriteOutput ==
    /\ app = "masking"
    /\ pc = "WriteOutput"
    /\ IF output_filename = ""
       THEN /\ exc' = WriteError
            /\ UNCHANGED <<outputFile, ui>>
       ELSE /\ outputFile' = [name |-> output_filename, bytes |-> presented[1]]
            /\ ui' = Append(ui, Msg("info", <<>>, <<"Image", "also", "saved", "as:", output_filename>>))
            /\ UNCHANGED exc
    /\ pc' = "Finally"
    /\ UNCHANGED <<vvars, lvars, app, submitted, envKey, clientKey, inputvars, temp_files,
                   base64_images, file_ids, created, registrations, genCalls, response,
                   image_data, presented, cleaned>>

\* one round of the finally loop: os.unlink(temp_file), its failure swallowed
Unlink ==
    /\ pc = "Finally"
    /\ cleaned < Len(temp_files)
    /\ \E removed \in BOOLEAN :
         LET k == CreatedAt(temp_files[cleaned + 1])
         IN  created' = [created EXCEPT ![k].unlinks = @ + 1,
                                        ![k].exists = IF removed THEN FALSE ELSE @]
    /\ cleaned' = cleaned + 1
    /\ UNCHANGED <<vvars, lvars, app, pc, submitted, envKey, clientKey, inputvars, temp_files,
                   base64_images, file_ids, registrations, genCalls, response,
                   image_data, presented, exc, ui, outputFile>>

\* the finally block is left; except Exception reports what was raised; the
\* script runs on to its end
Finish ==
    /\ pc = "Finally"
    /\ cleaned = Len(temp_files)
    /\ ui' = IF exc # NoError THEN Append(ui, Msg("error", <<>>, <<"Error:", exc>>)) ELSE ui
    /\ pc' = "Done"
    /\ UNCHANGED <<vvars, lvars, app, submitted, envKey, clientKey, inputvars, reqvars, outputFile>>

\* the script run is over: main's locals and the page are gone, the process
\* (environment, cached client, working directory) stays
EndRun ==
    /\ pc = "Done"
    /\ pc' = "Idle"
    /\ FreshRequest
    /\ submitted' = FALSE
    /\ api_key' = NoKey
    /\ uploaded_files' = <<>>
    /\ valid_files' = <<>>
    /\ base_image' = None
    /\ mask_image' = None
    /\ prompt' = ""
    /\ quality' = "high"
    /\ output_filename' = DefaultOutputFilename
    /\ ui' = <<>>
    /\ UNCHANGED <<vvars, lvars, app, envKey, clientKey, outputFile>>

Next ==
    \/ G_Run
    \/ G_Save
    \/ G_Encode
    \/ G_Register
    \/ G_Generate
    \/ G_Present
    \/ M_Run
    \/ M_SaveBase
    \/ M_SaveMask
    \/ M_RegisterBase
    \/ M_RegisterMask
    \/ M_Generate
    \/ M_Present
    \/ M_WriteOutput
    \/ Unlink
    \/ Finish
    \/ EndRun

Spec == Init /\ [][Next]_vars

\* every step of a running script: a call in progress returns or raises, and
\* the interpreter goes on (only the user's next interaction may never come)
ScriptStep ==
    \/ G_Save
    \/ G_Encode
    \/ G_Register
    \/ G_Generate
    \/ G_Present
    \/ M_SaveBase
    \/ M_SaveMask
    \/ M_RegisterBase
    \/ M_RegisterMask
    \/ M_Generate
    \/ M_Present
    \/ M_WriteOutput
    \/ Unlink
    \/ Finish

FairSpec == Spec /\ WF_vars(ScriptStep)

\* ================================================================ claims
\* the rules of validation as the specification states them
AllowedMime == {"image/jpeg", "image/jpg", "image/png", "image/gif", "image/webp"}
Acceptable(f) == f # None /\ f.size <= 20971520 /\ f.type \in AllowedMime

HandlerReturned == pc = "Done" /\ submitted

AnyInvalidUpload ==
    \/ \E k \in 1..Len(uploaded_files) : ~Acceptable(uploaded_files[k])
    \/ base_image # None /\ ~Acceptable(base_image)
    \/ mask_image # None /\ ~Acceptable(mask_image)

NothingIssued == created = <<>> /\ registrations = <<>> /\ genCalls = <<>>

Required == IF app = "generator" THEN Len(valid_files) ELSE 2

OkRegistrations == SelectSeq(registrations, LAMBDA r : r.ok)

\* C1 (as claimed): when the handler of a submitted request has returned,
\* every temp file the request created on disk has had exactly one delete
\* attempt.  Refuted: a save_uploaded_file that fails after creating its
\* file leaves a file that is never in temp_files.
C1_EveryTempFileUnlinkedOnce ==
    HandlerReturned => \A k \in 1..Len(created) : created[k].unlinks = 1

\* C2: validate_image_file returns ok exactly when the file is present, its
\* size is at most 20 MiB and its MIME type is one of the five allowed ones.
C2_ValidateRule ==
    vresult # NotRun => (vresult.ok <=> Acceptable(vfile))

C2_Witness ==
    /\ vresult.ok
    /\ vfile.size = 20971520

\* C3 (as claimed): whenever an upload of the run fails validation, nothing
\* is stored, registered or requested in that run.
C3_InvalidUploadBlocksAll ==
    AnyInvalidUpload => NothingIssued

\* C3 (amended): in the masked-edit app an invalid base or mask image ends
\* the run with nothing stored, registered or requested; in the
\* multi-reference app the run is blocked when no upload is valid, and
\* otherwise temp files and registrations are made for the valid uploads
\* only, in their order.
C3_InvalidUploadsAreDropped ==
    /\ (app = "masking" /\ AnyInvalidUpload) => (~submitted /\ NothingIssued)
    /\ app = "generator" =>
         /\ (\A k \in 1..Len(uploaded_files) : ~Acceptable(uploaded_files[k]))
               => (~submitted /\ NothingIssued)
         /\ Len(created) <= Len(valid_files)
         /\ \A k \in 1..Len(valid_files) : Acceptable(valid_files[k])
         /\ \A k \in 1..Len(created) :
               created[k].content \in {valid_files[k].content, <<>>}
         /\ \A k \in 1..Len(registrations) :
               registrations[k].content = valid_files[k].content

C3_Witness ==
    /\ app = "generator"
    /\ HandlerReturned
    /\ AnyInvalidUpload
    /\ registrations # <<>>
    /\ genCalls # <<>>

\* C4: in the multi-reference app valid_files is the subsequence of the
\* uploads that satisfy the validation rules, in upload order; every other
\* upload is reported as an error, an oversized one with a reason that
\* contains "File size" whatever its MIME type.
C4_ValidFilesAreTheAcceptedUploads ==
    (app = "generator" /\ pc # "Idle" /\ api_key # NoKey) =>
        /\ valid_files = SelectSeq(uploaded_files, Acceptable)
        /\ Len(ui) >= Len(uploaded_files)
        /\ \A k \in 1..Len(uploaded_files) :
             /\ ui[k].name = uploaded_files[k].name
             /\ ui[k].kind = IF Acceptable(uploaded_files[k]) THEN "success" ELSE "error"
             /\ uploaded_files[k].size > 20971520
                   => ContainsWords(ui[k].msg, <<"File", "size">>)

C4_Witness ==
    /\ app = "generator"
    /\ pc = "Done"
    /\ Len(uploaded_files) = 2
    /\ Len(valid_files) = 1
    /\ \E k \in 1..2 : uploaded_files[k] = FileBigBmp

\* C5 (as claimed): every submitted action issues exactly one generation
\* request.
C5_ExactlyOneGenerationRequest ==
    HandlerReturned => Len(genCalls) = 1

\* C5 (amended): a submitted action issues at most one generation request:
\* exactly one when every temp store and every file registration of the
\* request succeeded, none when one of them failed.
C5_AtMostOneGenerationRequest ==
    /\ Len(genCalls) <= 1
    /\ HandlerReturned =>
         (Len(genCalls) = 1 <=>
            (Len(temp_files) = Required /\ Len(OkRegistrations) = Required))

C5_Witness ==
    /\ HandlerReturned
    /\ Len(genCalls) = 0
    /\ \E k \in 1..Len(registrations) : ~registrations[k].ok

RegistrationFailed == \E k \in 1..Len(registrations) : ~registrations[k].ok

LastUi == ui[Len(ui)]

\* C6: once a file registration has failed it is the last registration of
\* the request (no retry, no later registration), nothing further has been
\* stored or encoded, no generation request is issued, and the request ends
\* with the upstream error reported.
C6_FailedRegistrationAborts ==
    RegistrationFailed =>
        LET n == Len(registrations)
        IN  /\ ~registrations[n].ok
            /\ \A k \in 1..(n - 1) : registrations[k].ok
            /\ Len(file_ids) = n - 1
            /\ Len(created) = IF app = "generator" THEN n ELSE 2
            /\ Len(temp_files) = Len(created)
            /\ Len(base64_images) = IF app = "generator" THEN n ELSE 0
            /\ genCalls = <<>>
            /\ exc = registrations[n].err
            /\ pc \in {"Finally", "Done"}
            /\ pc = "Done" =>
                 LastUi = Msg("error", <<>>, <<"Error:", registrations[n].err>>)

C6_Witness ==
    /\ HandlerReturned
    /\ RegistrationFailed
    /\ Len(registrations) < Required

ImageRefs(content) == SelectSeq(content, LAMBDA e : e.type = "input_image")
TextEntries(content) == SelectSeq(content, LAMBDA e : e.type = "input_text")

\* the upload whose bytes were registered under file id
RegisteredContent(id) == registrations[id].content

\* C7 (as claimed): the masked-edit request's content array has two image
\* references and one text entry, and the quality is in the tool
\* configuration.
C7_TwoImageReferencesInContent ==
    (app = "masking" /\ genCalls # <<>>) =>
        /\ Len(genCalls) = 1
        /\ Len(ImageRefs(genCalls[1].content)) = 2
        /\ Len(TextEntries(genCalls[1].content)) = 1
        /\ genCalls[1].tools[1].quality = quality

\* C7 (amended): the masked-edit request's content array has one text entry
\* (the prompt) and one image reference, the base image as a remote file
\* reference; the mask is sent as a remote file reference in the
\* image_generation tool configuration (input_image_mask), next to the
\* selected quality in {standard, high}.
C7_MaskInToolConfiguration ==
    (app = "masking" /\ genCalls # <<>>) =>
        LET req  == genCalls[1]
            refs == ImageRefs(req.content)
            tool == req.tools[1]
        IN  /\ Len(genCalls) = 1
            /\ Len(req.content) = 2
            /\ TextEntries(req.content) = <<[type |-> "input_text", text |-> prompt]>>
            /\ Len(refs) = 1
            /\ DOMAIN refs[1] = {"type", "file_id"}
            /\ registrations[refs[1].file_id].ok
            /\ registrations[refs[1].file_id].path = temp_files[1]
            /\ RegisteredContent(refs[1].file_id) = base_image.content
            /\ Len(req.tools) = 1
            /\ tool.type = "image_generation"
            /\ DOMAIN tool.input_image_mask = {"file_id"}
            /\ registrations[tool.input_image_mask.file_id].ok
            /\ registrations[tool.input_image_mask.file_id].path = temp_files[2]
            /\ RegisteredContent(tool.input_image_mask.file_id) = mask_image.content
            /\ tool.quality = quality
            /\ tool.quality \in {"standard", "high"}

C7_Witness ==
    /\ app = "masking"
    /\ genCalls # <<>>
    /\ base_image.content # mask_image.content
    /\ quality = "standard"

\* C8: the multi-reference request's content array has 2N+1 entries for N
\* accepted images: the prompt as input_text, then N inline base64 images,
\* then N file ids; the i-th inline image and the i-th file id are both the
\* i-th accepted upload.
C8_ContentHasEveryImageTwice ==
    (app = "generator" /\ genCalls # <<>>) =>
        LET c == genCalls[1].content
            N == Len(valid_files)
        IN  /\ N >= 1
            /\ Len(c) = 2 * N + 1
            /\ c[1] = [type |-> "input_text", text |-> prompt]
            /\ \A i \in 1..N :
                 /\ c[1 + i].type = "input_image"
                 /\ DOMAIN c[1 + i] = {"type", "image_url"}
                 /\ c[1 + i].image_url.prefix = "data:image/jpeg;base64,"
                 /\ B64Decode(c[1 + i].image_url.data)
                      = [ok |-> TRUE, bytes |-> valid_files[i].content]
                 /\ c[1 + N + i].type = "input_image"
                 /\ DOMAIN c[1 + N + i] = {"type", "file_id"}
                 /\ registrations[c[1 + N + i].file_id].ok
                 /\ RegisteredContent(c[1 + N + i].file_id) = valid_files[i].content

C8_Witness ==
    /\ app = "generator"
    /\ genCalls # <<>>
    /\ Len(valid_files) = 2
    /\ valid_files[1] # valid_files[2]

ImageCallResults(resp) ==
    LET calls == SelectSeq(resp.output, LAMBDA o : o.type = "image_generation_call")
    IN  [k \in 1..Len(calls) |-> calls[k].result]

GenerationReturned == genCalls # <<>> /\ exc \notin ApiErrors /\ pc # "Generate"

\* C9 (as claimed): when a request has ended without an error, the images
\* decoded and presented are the results of the response's
\* image_generation_call entries, one for one and in order.
C9_EveryImageCallPresented ==
    (HandlerReturned /\ GenerationReturned /\ exc = NoError) =>
        /\ image_data = ImageCallResults(response)
        /\ Len(presented) = Len(ImageCallResults(response))
        /\ \A k \in 1..Len(presented) :
             B64Decode(image_data[k]) = [ok |-> TRUE, bytes |-> presented[k]]

\* C9 (amended): the extractor yields the results of the response's
\* image_generation_call entries, in order, and nothing else.  The
\* multi-reference app decodes and presents them in order, all of them when
\* all decode and up to the first that fails to decode otherwise; the
\* masked-edit app decodes and presents only the first of them.
C9_ExtractedInOrderPresentedPerApp ==
    GenerationReturned =>
        /\ image_data = ImageCallResults(response)
        /\ \A k \in 1..Len(presented) :
             B64Decode(image_data[k]) = [ok |-> TRUE, bytes |-> presented[k]]
        /\ Len(presented) <= Len(image_data)
        /\ app = "masking" => Len(presented) <= 1
        /\ pc = "Done" =>
             \/ Len(presented) = Len(image_data)
             \/ app = "masking" /\ Len(presented) = 1
             \/ /\ ~B64Decode(image_data[Len(presented) + 1]).ok
                /\ exc = DecodeError

C9_Witness ==
    /\ app = "masking"
    /\ HandlerReturned
    /\ exc = NoError
    /\ Len(ImageCallResults(response)) = 2
    /\ Len(presented) = 1

\* C10: a response without image_generation_call entries gives an empty
\* extractor result and a reported soft failure: nothing is raised, nothing
\* is decoded, shown or saved, every temp file gets its delete attempt, and
\* the next run can start.
C10_EmptyResultIsSoftFailure ==
    (GenerationReturned /\ ImageCallResults(response) = <<>>) =>
        /\ image_data = <<>>
        /\ exc = NoError
        /\ presented = <<>>
        /\ LastUi.kind = "error"
        /\ LastUi.msg \in {<<"No", "images", "were", "generated">>,
                           <<"No", "image", "was", "generated">>}
        /\ \A k \in 1..Len(ui) : ui[k].kind # "info"
        /\ pc \in {"Finally", "Done"}
        /\ pc = "Done" =>
             /\ Len(created) = Required
             /\ \A k \in 1..Len(created) : created[k].unlinks = 1
             /\ ENABLED EndRun

C10_Witness ==
    /\ HandlerReturned
    /\ GenerationReturned
    /\ response.output = <<OutMsg>>
    /\ ui # <<>>
    /\ LastUi.kind = "error"

Processing == pc \notin {"Idle", "Done"}

\* what the page shows for the request: the success banner, an error
ShownSuccess ==
    \E k \in 1..Len(ui) : ui[k] = Msg("success", <<>>, <<"generated", "successfully!">>)

ShownFailed ==
    \E k \in 1..Len(ui) : ui[k].kind = "error" /\ ui[k].name = <<>>

\* C11 (as claimed): Processing is entered only on submit, and a request that
\* has left Processing shows exactly one of Success and Failed, Success only
\* if every registration and the generation call returned and at least one
\* image was extracted.  Refuted: the success banner is shown before the
\* image is decoded and written, so a failure there ends in both.
C11_ExactlyOneOutcome ==
    /\ Processing => submitted
    /\ HandlerReturned =>
         /\ ShownSuccess \/ ShownFailed
         /\ ~(ShownSuccess /\ ShownFailed)
         /\ ShownSuccess =>
              /\ Len(OkRegistrations) = Required
              /\ GenerationReturned
              /\ image_data # <<>>

\* C11 (the part that holds): every request that enters Processing leaves it
C11_ProcessingEnds == Processing ~> (pc = "Done")

\* C12: the output file in the working directory changes only in a step of a
\* masked-edit request that obtained at least one generated image (every
\* registration and the generation call returned, an image was extracted and
\* decoded); a request that ends with a registration error, a
\* generation-call error or an empty result never changes it.
C12_OutputWrittenOnlyWithImage ==
    [][outputFile' # outputFile =>
          /\ app = "masking"
          /\ submitted
          /\ pc = "WriteOutput"
          /\ ~RegistrationFailed
          /\ Len(OkRegistrations) = 2
          /\ GenerationReturned
          /\ exc = NoError
          /\ ImageCallResults(response) # <<>>
          /\ presented # <<>>
          /\ outputFile' = [name |-> output_filename, bytes |-> presented[1]]]_vars

C12_Witness ==
    /\ app = "masking"
    /\ HandlerReturned
    /\ outputFile = [name |-> DefaultOutputFilename, bytes |-> ImgY]
    /\ \/ RegistrationFailed
       \/ genCalls # <<>> /\ exc \in ApiErrors
       \/ GenerationReturned /\ response.output = <<OutMsg>>

\* the calls of the run that carry a key; the key in effect for the run is
\* api_key (the one typed in the sidebar, else the environment's)
OutboundCalls == registrations \o genCalls

\* C14 (as claimed): every file registration and generation call of a request
\* is made with the API key in effect for that request.  Refuted: the cached
\* client keeps the key it was built with.
C14_CallsUseTheKeyInEffect ==
    \A k \in 1..Len(OutboundCalls) : OutboundCalls[k].key = api_key

\* C15: a temp file, a file registration or a generation request exists only
\* in a run that has an API key, a non-empty prompt and its required images,
\* present and valid: at least one accepted image in the multi-reference app,
\* a base image and a mask image in the masked-edit app.
C15_NothingOutboundWithoutInputs ==
    ~NothingIssued =>
        /\ submitted
        /\ api_key # NoKey
        /\ envKey = api_key
        /\ prompt # ""
        /\ app = "generator" =>
             /\ valid_files # <<>>
             /\ \A k \in 1..Len(valid_files) :
                  /\ Acceptable(valid_files[k])
                  /\ InSeq(valid_files[k], uploaded_files)
        /\ app = "masking" => (Acceptable(base_image) /\ Acceptable(mask_image))

C15_Witness ==
    /\ app = "masking"
    /\ HandlerReturned
    /\ created # <<>>
    /\ registrations # <<>>
    /\ genCalls # <<>>

\* --------------------------- run_image_generator.py, mask_runner.py: main
\* one round of check_dependencies' loop: import the package, note it when
\* ImportError is raised
L_Import ==
    /\ lpc = "Check"
    /\ checked < Len(required_packages)
    /\ LET package == required_packages[checked + 1]
       IN  missing_packages' = IF package \in installed THEN missing_packages
                               ELSE Append(missing_packages, package)
    /\ checked' = checked + 1
    /\ UNCHANGED <<vvars, launcher, lpc, installed, server, lexc, exit_code, app, pc,
                   submitted, envKey, clientKey, inputvars, reqvars, ui, outputFile>>

\* a missing package is not reported
check_dependencies_AlwaysTrue == TRUE

\* what check_dependencies returns after its loop
check_dependencies == missing_packages = <<>>

\* if not check_dependencies(): sys.exit(1)
L_Checked ==
    /\ lpc = "Check"
    /\ checked = Len(required_packages)
    /\ IF check_dependencies
       THEN /\ lpc' = "Start"
            /\ UNCHANGED exit_code
       ELSE /\ lpc' = "Exited"
            /\ exit_code' = 1
    /\ UNCHANGED <<vvars, launcher, installed, checked, missing_packages, server, lexc,
                   app, pc, submitted, envKey, clientKey, inputvars, reqvars, ui,
                   outputFile>>

\* subprocess.run: the server process is started, or starting it raises and
\* except Exception exits with 1
L_Start ==
    /\ lpc = "Start"
    /\ \/ /\ server' = ServerOf(launcher)
          /\ lpc' = "Serving"
          /\ UNCHANGED <<lexc, exit_code>>
       \/ \E e \in StartErrors :
            /\ lexc' = e
            /\ lpc' = "Exited"
            /\ exit_code' = 1
            /\ UNCHANGED server
    /\ UNCHANGED <<vvars, launcher, installed, checked, missing_packages, app, pc,
                   submitted, envKey, clientKey, inputvars, reqvars, ui, outputFile>>

\* the server process ends and subprocess.run returns, or Ctrl+C raises
\* KeyboardInterrupt, which is caught: main returns, exit code 0
L_Stop ==
    /\ lpc = "Serving"
    /\ \E e \in {NoError, KeyboardInterrupt} : lexc' = e
    /\ lpc' = "Exited"
    /\ exit_code' = 0
    /\ UNCHANGED <<vvars, launcher, installed, checked, missing_packages, server, app,
                   pc, submitted, envKey, clientKey, inputvars, reqvars, ui, outputFile>>

InitLauncher ==
    /\ launcher \in Apps
    /\ lpc = "Check"
    /\ installed \in SUBSET {required_packages[k] : k \in 1..Len(required_packages)}
    /\ checked = 0
    /\ missing_packages = <<>>
    /\ server = NoServer
    /\ lexc = NoError
    /\ exit_code = 0
    /\ vfile = None
    /\ vresult = NotRun
    /\ app = launcher
    /\ pc = "Idle"
    /\ submitted = FALSE
    /\ envKey = NoKey
    /\ clientKey = NoClient
    /\ api_key = NoKey
    /\ uploaded_files = <<>>
    /\ valid_files = <<>>
    /\ base_image = None
    /\ mask_image = None
    /\ prompt = ""
    /\ quality = "high"
    /\ output_filename = DefaultOutputFilename
    /\ temp_files = <<>>
    /\ base64_images = <<>>
    /\ file_ids = <<>>
    /\ created = <<>>
    /\ registrations = <<>>
    /\ genCalls = <<>>
    /\ response = NoResponse
    /\ image_data = <<>>
    /\ presented = <<>>
    /\ exc = NoError
    /\ cleaned = 0
    /\ ui = <<>>
    /\ outputFile = NoOutput

NextLauncher ==
    \/ L_Import
    \/ L_Checked
    \/ L_Start
    \/ L_Stop

SpecLauncher == InitLauncher /\ [][NextLauncher]_vars

\* C13: a launcher goes through the four required packages before anything
\* else; with one of them missing it exits with code 1 and never starts the
\* server; the server is started only with all four found, on localhost and
\* the launcher's fixed port (8501 generator, 8502 masking); an exception
\* raised while starting the server gives exit code 1.
C13_LauncherChecksThenStarts ==
    LET Needed  == {"streamlit", "openai", "requests", "PIL"}
        Missing == Needed \ installed
    IN  /\ lpc # "Check" => checked = 4
        /\ (lpc # "Check" /\ Missing # {}) =>
             (lpc = "Exited" /\ exit_code = 1 /\ server = NoServer /\ lexc = NoError)
        /\ server # NoServer =>
             /\ Missing = {}
             /\ checked = 4
             /\ server.address = "localhost"
             /\ server.port = IF launcher = "generator" THEN 8501 ELSE 8502
             /\ server.script = IF launcher = "generator" THEN "streamlit_app.py"
                                ELSE "image_masking_streamlit.py"
        /\ lexc \in StartErrors =>
             (lpc = "Exited" /\ exit_code = 1 /\ server = NoServer)

C13_Witness ==
    /\ lpc = "Exited"
    /\ exit_code = 1
    /\ installed = {"streamlit", "openai", "requests"}
    /\ missing_packages = <<"PIL">>
    /\ server = NoServer

\* ------------------------------------------- validate_image_file on its own
InitValidate ==
    /\ vfile \in ValidateInputs
    /\ vresult = NotRun
    /\ app = "generator"
    /\ pc = "Idle"
    /\ submitted = FALSE
    /\ envKey = NoKey
    /\ clientKey = NoClient
    /\ api_key = NoKey
    /\ uploaded_files = <<>>
    /\ valid_files = <<>>
    /\ base_image = None
    /\ mask_image = None
    /\ prompt = ""
    /\ quality = "high"
    /\ output_filename = DefaultOutputFilename
    /\ temp_files = <<>>
    /\ base64_images = <<>>
    /\ file_ids = <<>>
    /\ created = <<>>
    /\ registrations = <<>>
    /\ genCalls = <<>>
    /\ response = NoResponse
    /\ image_data = <<>>
    /\ presented = <<>>
    /\ exc = NoError
    /\ cleaned = 0
    /\ ui = <<>>
    /\ outputFile = NoOutput
    /\ LauncherServing(app)

Validate ==
    /\ vresult = NotRun
    /\ vresult' = validate_image_file(vfile)
    /\ UNCHANGED <<vfile, lvars, app, pc, submitted, envKey, clientKey, inputvars,
                   reqvars, ui, outputFile>>

NextValidate == Validate

SpecValidate == InitValidate /\ [][NextValidate]_vars
====
